---- MODULE Spec2Model ----
(***************************************************************************)
(* Model of IngredientNormalizer (input_logic.py): the loader of the       *)
(* vocabulary, the text canonicaliser, the tokenizer, the three-tier       *)
(* candidate generator, the category-weighted ranker and best_match.       *)
(*                                                                         *)
(* Strings are sequences of one-character strings.  Scores are kept as     *)
(* exact fixed-point integers in units of 1/50: raw similarity scores are  *)
(* multiples of 5 and cutoffs are 30 or 60; on these every ordering and    *)
(* cutoff comparison of the exact values agrees with the comparison the    *)
(* code makes on floats (the floats themselves differ from the exact       *)
(* values by rounding only, e.g. 49.199999999999996 for 49.2).             *)
(***************************************************************************)
EXTENDS Integers, Sequences, FiniteSets

(* ------------------------------ bounds --------------------------------- *)
MaxTopK == 2
MaxTextLen == 3
MaxCands == 3

(* ------------------------- characters and text ------------------------- *)
UpperSeq == <<"A","B","C","D","E","F","G","H","I","J","K","L","M",
              "N","O","P","Q","R","S","T","U","V","W","X","Y","Z">>
LowerSeq == <<"a","b","c","d","e","f","g","h","i","j","k","l","m",
              "n","o","p","q","r","s","t","u","v","w","x","y","z">>
Digits == {"0","1","2","3","4","5","6","7","8","9"}

Range(s) == {s[i] : i \in DOMAIN s}

\* str.lower() on one character
LowerChar(c) ==
    IF \E i \in DOMAIN UpperSeq : UpperSeq[i] = c
    THEN LowerSeq[CHOOSE i \in DOMAIN UpperSeq : UpperSeq[i] = c]
    ELSE c

\* regex class \s
IsSpace(c) == c \in {" ", "\t", "\n"}

\* regex class \w
IsWord(c) == c \in Range(LowerSeq) \cup Range(UpperSeq) \cup Digits \cup {"_"}

\* str.lower()
Lower(s) == [i \in DOMAIN s |-> LowerChar(s[i])]

RECURSIVE LStrip(_)
LStrip(s) == IF s # <<>> /\ IsSpace(Head(s)) THEN LStrip(Tail(s)) ELSE s

RECURSIVE RStrip(_)
RStrip(s) ==
    IF s # <<>> /\ IsSpace(s[Len(s)]) THEN RStrip(SubSeq(s, 1, Len(s) - 1)) ELSE s

\* str.strip()
Strip(s) == RStrip(LStrip(s))

\* re.sub(r"[^\w\s'-]", " ", text)
RemovePunctuation(s) ==
    [i \in DOMAIN s |->
        IF IsWord(s[i]) \/ IsSpace(s[i]) \/ s[i] \in {"'", "-"} THEN s[i] ELSE " "]

\* re.sub(r"\s+", " ", text): every maximal run of whitespace becomes one space
RECURSIVE CollapseSpaces(_)
CollapseSpaces(s) ==
    IF s = <<>> THEN <<>>
    ELSE IF IsSpace(Head(s))
         THEN <<" ">> \o CollapseSpaces(LStrip(s))
         ELSE <<Head(s)>> \o CollapseSpaces(Tail(s))

\* _normalize_text: lower, strip, punctuation to space, collapse whitespace
NormalizeText(text) == CollapseSpaces(RemovePunctuation(Strip(Lower(text))))

IsSep(c) == IsSpace(c) \/ c = "-"

RECURSIVE SkipSeps(_)
SkipSeps(s) == IF s # <<>> /\ IsSep(Head(s)) THEN SkipSeps(Tail(s)) ELSE s

RECURSIVE TakeToken(_)
TakeToken(s) ==
    IF s = <<>> \/ IsSep(Head(s)) THEN <<>> ELSE <<Head(s)>> \o TakeToken(Tail(s))

\* _tokens: re.split(r"[\s\-]+", text) without the empty pieces
RECURSIVE Tokens(_)
Tokens(text) ==
    LET s == SkipSeps(text)
    IN IF s = <<>> THEN <<>>
       ELSE <<TakeToken(s)>> \o Tokens(SubSeq(s, Len(TakeToken(s)) + 1, Len(s)))

(* ------------------------------ words ---------------------------------- *)
egg == <<"e","g","g">>
ham == <<"h","a","m">>
oil == <<"o","i","l">>
mix == <<"m","i","x">>
salt == <<"s","a","l","t">>
sugar == <<"s","u","g","a","r">>
sauce == <<"s","a","u","c","e">>
paste == <<"p","a","s","t","e">>
dressing == <<"d","r","e","s","s","i","n","g">>
powder == <<"p","o","w","d","e","r">>
extract == <<"e","x","t","r","a","c","t">>
protein == <<"p","r","o","t","e","i","n">>
produce == <<"p","r","o","d","u","c","e">>
fruit == <<"f","r","u","i","t">>
vegetable == <<"v","e","g","e","t","a","b","l","e">>
dairy == <<"d","a","i","r","y">>
grain == <<"g","r","a","i","n">>
baking == <<"b","a","k","i","n","g">>
condiment == <<"c","o","n","d","i","m","e","n","t">>
seasoning == <<"s","e","a","s","o","n","i","n","g">>
spread == <<"s","p","r","e","a","d">>
sweetener == <<"s","w","e","e","t","e","n","e","r">>
liquid == <<"l","i","q","u","i","d">>

(* ------------------------- the static tables --------------------------- *)
\* self.category_priority, read with .get(category, 1)
category_priority(cat) ==
    CASE cat = protein -> 10
      [] cat = produce -> 9
      [] cat = fruit -> 9
      [] cat = vegetable -> 9
      [] cat = dairy -> 8
      [] cat = grain -> 7
      [] cat = baking -> 6
      [] cat = oil -> 5
      [] cat = condiment -> 3
      [] cat = seasoning -> 4
      [] cat = spread -> 4
      [] cat = sweetener -> 4
      [] cat = liquid -> 4
      [] cat = <<>> -> 1
      [] OTHER -> 1

\* self.modifier_tokens
modifier_tokens == {sauce, paste, salt, sugar, oil, dressing, powder, extract, mix}

(* ------------------------------ loader --------------------------------- *)
\* row[0].strip().lower()
RowName(row) == Lower(Strip(row[1]))

\* row[1].strip().lower() if len(row) > 1 else ""
RowCategory(row) == IF Len(row) > 1 THEN Lower(Strip(row[2])) ELSE <<>>

\* a row that the loop of __init__ appends: not blank, non-empty name
UsableRow(row) == row # <<>> /\ RowName(row) # <<>>

\* self.standard_ingredients after the loop over the rows
RECURSIVE LoadIngredients(_)
LoadIngredients(rows) ==
    IF rows = <<>> THEN <<>>
    ELSE LET rest == LoadIngredients(SubSeq(rows, 1, Len(rows) - 1))
             row == rows[Len(rows)]
         IN IF UsableRow(row) THEN Append(rest, RowName(row)) ELSE rest

\* self.ingredient_to_category after the loop: a later row overwrites
RECURSIVE LoadCategories(_)
LoadCategories(rows) ==
    IF rows = <<>> THEN <<>>
    ELSE LET rest == LoadCategories(SubSeq(rows, 1, Len(rows) - 1))
             row == rows[Len(rows)]
         IN IF UsableRow(row)
            THEN [n \in DOMAIN rest \cup {RowName(row)} |->
                    IF n = RowName(row) THEN RowCategory(row) ELSE rest[n]]
            ELSE rest

(* ------------------------------- state --------------------------------- *)
VARIABLES
    csv_rows,               \* rows csv.reader yields for csv_path
    readable,               \* whether open(csv_path) succeeds
    status,                 \* "new", "ready" (constructed) or "failed" (constructor raised)
    standard_ingredients,   \* self.standard_ingredients
    ingredient_to_category, \* self.ingredient_to_category
    pc,                     \* "idle", or "returned" while the caller holds a result
    op,                     \* the operation that returned
    input_text,             \* argument input_text
    top_k,                  \* argument top_k
    score_cutoff,           \* argument score_cutoff
    fuzz,                   \* _FUZZ_SCORE(text, .) on the vocabulary, for this call
    text,                   \* local text of normalize_ingredient
    tier,                   \* 1, 2 or 3: the return statement that was taken
    cands,                  \* the list last passed to _rank_candidates
    ranked,                 \* local ranked at the return
    result,                 \* the list normalize_ingredient returned
    best                    \* best_match's return: <<>> for None, <<name>> otherwise

engine == <<csv_rows, readable, status, standard_ingredients, ingredient_to_category>>
call == <<op, input_text, top_k, score_cutoff, fuzz, text, tier, cands, ranked, result, best>>
vars == <<engine, pc, call>>

(* ------------------------------- ranker -------------------------------- *)
Min(a, b) == IF a < b THEN a ELSE b

\* lst[:n]
Take(lst, n) == SubSeq(lst, 1, Min(n, Len(lst)))

\* _category_score
CategoryScore(ingredient) ==
    category_priority(IF ingredient \in DOMAIN ingredient_to_category
                      THEN ingredient_to_category[ingredient] ELSE <<>>)

\* the penalty test of _rank_candidates: tokens & modifiers and not (tokens - modifiers)
ModifierOnly(ing) ==
    LET tokens == Range(Tokens(ing))
    IN tokens \cap modifier_tokens # {} /\ tokens \ modifier_tokens = {}

\* the combined score without the modifier penalty
CombinedNoPenalty(ing, fuzz_score) == fuzz_score * 40 + CategoryScore(ing) * 100

\* combined score of _rank_candidates in units of 1/50:
\* fuzz_score * 0.8 + category_score * 2.0, times 0.6 under the penalty
Combined(ing, fuzz_score) ==
    LET combined == fuzz_score * 40 + CategoryScore(ing) * 100
    IN IF ModifierOnly(ing) THEN (combined * 3) \div 5 ELSE combined

\* an insertion that places x in front of the entries of equal score
RECURSIVE InsertDescTiesFirst(_, _)
InsertDescTiesFirst(sorted, x) ==
    IF sorted = <<>> THEN <<x>>
    ELSE IF Head(sorted)[2] > x[2]
         THEN <<Head(sorted)>> \o InsertDescTiesFirst(Tail(sorted), x)
         ELSE <<x>> \o sorted

\* place x behind every entry whose score is at least x's (descending, stable)
RECURSIVE InsertDesc(_, _)
InsertDesc(sorted, x) ==
    IF sorted = <<>> THEN <<x>>
    ELSE IF Head(sorted)[2] >= x[2]
         THEN <<Head(sorted)>> \o InsertDesc(Tail(sorted), x)
         ELSE <<x>> \o sorted

\* list.sort(key=lambda x: x[1], reverse=True): descending, ties keep input order
RECURSIVE SortDesc(_)
SortDesc(lst) ==
    IF lst = <<>> THEN <<>>
    ELSE InsertDesc(SortDesc(SubSeq(lst, 1, Len(lst) - 1)), lst[Len(lst)])

\* _rank_candidates
RankCandidates(candidates) ==
    SortDesc([i \in DOMAIN candidates |->
                <<candidates[i][1], Combined(candidates[i][1], candidates[i][2])>>])

(* ------------------------- candidate generation ------------------------ *)
\* tokens[0] if len(tokens) == 1 else max(tokens, key=len): the first longest token
PrimaryToken(tokens) ==
    tokens[CHOOSE i \in DOMAIN tokens :
              /\ \A j \in DOMAIN tokens : Len(tokens[j]) <= Len(tokens[i])
              /\ \A j \in 1..(i - 1) : Len(tokens[j]) < Len(tokens[i])]

\* _head_token_candidates: the entries one of whose tokens equals the token
HeadTokenCandidates(token) ==
    LET tok == Lower(token)
        HasToken(ing) == tok \in Range(Tokens(ing))
    IN SelectSeq(standard_ingredients, HasToken)

\* cand_scores of tier 2; score[c] is _FUZZ_SCORE(text, c)
HeadScores(head_candidates, score) ==
    [i \in DOMAIN head_candidates |-> <<head_candidates[i], score[head_candidates[i]]>>]

\* the adjusted cutoff of tier 2: (s - category_score*2.0) >= score_cutoff*0.6
PassesHeadCutoff(entry, cutoff) == entry[2] - CategoryScore(entry[1]) * 100 >= cutoff * 30

\* the cutoff of tier 3: (s - category_score*2.0) >= score_cutoff
PassesCutoff(entry, cutoff) == entry[2] - CategoryScore(entry[1]) * 100 >= cutoff * 50

\* tier 2 filtering the whole ranked list before cutting it to top_k
HeadResultsFilterFirst(head_ranked, k, cutoff) ==
    LET Pass(entry) == PassesHeadCutoff(entry, cutoff)
    IN Take(SelectSeq(head_ranked, Pass), k)

\* results of tier 2: the entries of ranked[:top_k] that pass the adjusted cutoff
HeadResults(head_ranked, k, cutoff) ==
    LET Pass(entry) == PassesHeadCutoff(entry, cutoff)
    IN SelectSeq(Take(head_ranked, k), Pass)

\* _EXTRACT(text, choices, scorer=_FUZZ_SCORE, limit=limit): the limit best-scored
\* choices, best first, equal scores in the order of the choices
Extract(choices, score, limit) ==
    Take(SortDesc([i \in DOMAIN choices |-> <<choices[i], score[choices[i]]>>]), limit)

\* tier 3 without the fallback to the top few
FallbackResultsFilterOnly(fallback_ranked, k, cutoff) ==
    LET Pass(entry) == PassesCutoff(entry, cutoff)
    IN SelectSeq(fallback_ranked, Pass)

\* tier 3 from the ranked list on: filter by the cutoff, else the top few
FallbackResults(fallback_ranked, k, cutoff) ==
    LET Pass(entry) == PassesCutoff(entry, cutoff)
        filtered == SelectSeq(fallback_ranked, Pass)
    IN IF filtered = <<>> /\ fallback_ranked # <<>>
       THEN Take(fallback_ranked, Min(Len(fallback_ranked), k))
       ELSE filtered

\* normalize_ingredient; the record holds the locals at the return taken
NormalizeIngredient(input, k, cutoff, score) ==
    LET txt == NormalizeText(input)
        tokens == Tokens(txt)
        head_candidates == IF tokens = <<>> THEN <<>>
                           ELSE HeadTokenCandidates(PrimaryToken(tokens))
        cand_scores == HeadScores(head_candidates, score)
        head_ranked == RankCandidates(cand_scores)
        results == HeadResults(head_ranked, k, cutoff)
        norm_candidates == Extract(standard_ingredients, score, k)
        fallback_ranked == RankCandidates(norm_candidates)
    IN IF txt \in Range(standard_ingredients)
       THEN [text |-> txt, tier |-> 1, cands |-> <<>>, ranked |-> <<>>,
             result |-> << <<txt, 5000>> >>]
       ELSE IF results # <<>>
       THEN [text |-> txt, tier |-> 2, cands |-> cand_scores, ranked |-> head_ranked,
             result |-> results]
       ELSE [text |-> txt, tier |-> 3, cands |-> norm_candidates,
             ranked |-> fallback_ranked,
             result |-> FallbackResults(fallback_ranked, k, cutoff)]

\* best_match from the suggestions on: None, or the name of the first one
BestOf(suggestions) == IF suggestions = <<>> THEN <<>> ELSE <<suggestions[1][1]>>

(* ------------------------------ inputs --------------------------------- *)
BestMatchTopK == 5
DefaultScoreCutoff == 60

CsvMain == << <<egg, protein>>, <<egg \o <<" ">> \o mix, condiment>>, <<oil, oil>> >>
CsvTies == << <<ham, protein>>, <<>>, <<egg, protein>>, <<salt>> >>
CsvPunct == << <<ham \o <<"&">> \o egg, protein>>,
               <<<<" ","E","g","g"," "," ">> \o mix \o <<" ">>, <<" ","C">> \o Tail(condiment)>> >>
CsvDup == << <<egg, protein>>, <<<<"E","g","g"," ">>, condiment>> >>
CsvEmpty == << >>
CsvBlank == << <<>>, <<<<" "," ">>, protein>> >>
CsvMod == << <<oil, oil>>, <<ham>>, <<egg \o <<"-">> \o mix, condiment>> >>

CsvSources == {CsvMain, CsvTies, CsvPunct, CsvDup, CsvEmpty, CsvBlank, CsvMod}

Inputs ==
    { egg, <<" ","E","g","g"," ">>, egg \o <<"!">>, egg \o <<"s">>, << >>,
      <<"!","!">>, <<" ","\t">>, ham \o <<" ">> \o egg, egg \o <<" ">> \o salt,
      egg \o <<" "," ">> \o mix, ham \o <<"&">> \o egg, oil }

TopKs == 1..MaxTopK
Cutoffs == {30, DefaultScoreCutoff}
Scores == {0, 40, 50, 100}


(* ------------------------------ actions -------------------------------- *)
Init ==
    /\ csv_rows \in CsvSources
    /\ readable \in BOOLEAN
    /\ status = "new"
    /\ standard_ingredients = <<>>
    /\ ingredient_to_category = <<>>
    /\ pc = "idle"
    /\ op = "none" /\ input_text = <<>> /\ top_k = 0 /\ score_cutoff = 0
    /\ fuzz = <<>> /\ text = <<>> /\ tier = 0
    /\ cands = <<>> /\ ranked = <<>> /\ result = <<>> /\ best = <<>>

\* IngredientNormalizer.__init__
Construct ==
    /\ status = "new"
    /\ IF readable
       THEN /\ status' = "ready"
            /\ standard_ingredients' = LoadIngredients(csv_rows)
            /\ ingredient_to_category' = LoadCategories(csv_rows)
       ELSE /\ status' = "failed"
            /\ UNCHANGED <<standard_ingredients, ingredient_to_category>>
    /\ UNCHANGED <<csv_rows, readable, pc, call>>

\* a call whose extraction sorts the vocabulary list it was handed, in place
ReturnsSortingVocabulary(o, input, k, cutoff, score) ==
    LET r == NormalizeIngredient(input, k, cutoff, score)
        sorted == Extract(standard_ingredients, score, Len(standard_ingredients))
    IN /\ op' = o
       /\ input_text' = input
       /\ top_k' = k
       /\ score_cutoff' = cutoff
       /\ fuzz' = score
       /\ text' = r.text
       /\ tier' = r.tier
       /\ cands' = r.cands
       /\ ranked' = r.ranked
       /\ result' = r.result
       /\ best' = IF o = "best_match" THEN BestOf(r.result) ELSE <<>>
       /\ pc' = "returned"
       /\ standard_ingredients' = [i \in DOMAIN sorted |-> sorted[i][1]]
       /\ UNCHANGED <<csv_rows, readable, status, ingredient_to_category>>

\* the effect of one normalize_ingredient call made by operation o
Returns(o, input, k, cutoff, score) ==
    LET r == NormalizeIngredient(input, k, cutoff, score)
    IN /\ op' = o
       /\ input_text' = input
       /\ top_k' = k
       /\ score_cutoff' = cutoff
       /\ fuzz' = score
       /\ text' = r.text
       /\ tier' = r.tier
       /\ cands' = r.cands
       /\ ranked' = r.ranked
       /\ result' = r.result
       /\ best' = IF o = "best_match" THEN BestOf(r.result) ELSE <<>>
       /\ pc' = "returned"
       /\ UNCHANGED engine

\* a call of normalize_ingredient(input_text, top_k, score_cutoff)
NormalizeIngredientCall ==
    /\ status = "ready" /\ pc = "idle"
    /\ \E input \in Inputs, k \in TopKs, cutoff \in Cutoffs,
          score \in [Range(standard_ingredients) -> Scores] :
            Returns("normalize_ingredient", input, k, cutoff, score)

\* a call of best_match(input_text)
BestMatchCall ==
    /\ status = "ready" /\ pc = "idle"
    /\ \E input \in Inputs, score \in [Range(standard_ingredients) -> Scores] :
            Returns("best_match", input, BestMatchTopK, DefaultScoreCutoff, score)

\* the caller is done with the result; the locals of the call are gone
Discard ==
    /\ pc = "returned"
    /\ pc' = "idle"
    /\ op' = "none" /\ input_text' = <<>> /\ top_k' = 0 /\ score_cutoff' = 0
    /\ fuzz' = <<>> /\ text' = <<>> /\ tier' = 0
    /\ cands' = <<>> /\ ranked' = <<>> /\ result' = <<>> /\ best' = <<>>
    /\ UNCHANGED engine

Next == Construct \/ NormalizeIngredientCall \/ BestMatchCall \/ Discard

Spec == Init /\ [][Next]_vars

(* ---------------- the canonicaliser on its own ------------------------- *)
TextAlphabet == {"a", "B", " ", "!", "-"}

RECURSIVE TextsUpTo(_)
TextsUpTo(n) ==
    IF n = 0 THEN {<<>>}
    ELSE LET shorter == TextsUpTo(n - 1)
         IN shorter \cup {Append(t, c) : t \in shorter, c \in TextAlphabet}

InitText ==
    /\ csv_rows = CsvMain
    /\ readable = TRUE
    /\ status = "ready"
    /\ standard_ingredients = LoadIngredients(CsvMain)
    /\ ingredient_to_category = LoadCategories(CsvMain)
    /\ pc = "idle"
    /\ op = "none" /\ input_text = <<>> /\ top_k = 0 /\ score_cutoff = 0
    /\ fuzz = <<>> /\ text = <<>> /\ tier = 0
    /\ cands = <<>> /\ ranked = <<>> /\ result = <<>> /\ best = <<>>

\* a call of _normalize_text(input_text)
NormalizeTextCall ==
    /\ pc = "idle"
    /\ \E input \in TextsUpTo(MaxTextLen) :
          /\ op' = "_normalize_text"
          /\ input_text' = input
          /\ text' = NormalizeText(input)
    /\ pc' = "returned"
    /\ UNCHANGED <<engine, top_k, score_cutoff, fuzz, tier, cands, ranked, result, best>>

NextText == NormalizeTextCall \/ Discard

SpecText == InitText /\ [][NextText]_vars

(* ------------------- the ranker on its own ----------------------------- *)
RankNames == <<oil, egg, egg \o <<" ">> \o mix>>
RankCategories == {protein, oil, <<>>}

RECURSIVE ListsUpTo(_, _)
ListsUpTo(S, n) ==
    IF n = 0 THEN {<<>>}
    ELSE LET shorter == ListsUpTo(S, n - 1)
         IN shorter \cup {Append(l, x) : l \in shorter, x \in S}

InitRank ==
    /\ csv_rows = <<>>
    /\ readable = TRUE
    /\ status = "ready"
    /\ standard_ingredients = RankNames
    /\ ingredient_to_category \in [Range(RankNames) -> RankCategories]
    /\ pc = "idle"
    /\ op = "none" /\ input_text = <<>> /\ top_k = 0 /\ score_cutoff = 0
    /\ fuzz = <<>> /\ text = <<>> /\ tier = 0
    /\ cands = <<>> /\ ranked = <<>> /\ result = <<>> /\ best = <<>>

\* a call of _rank_candidates(candidates)
RankCandidatesCall ==
    /\ pc = "idle"
    /\ \E candidates \in ListsUpTo(Range(RankNames) \X Scores, MaxCands) :
          /\ op' = "_rank_candidates"
          /\ cands' = candidates
          /\ ranked' = RankCandidates(candidates)
    /\ pc' = "returned"
    /\ UNCHANGED <<engine, input_text, top_k, score_cutoff, fuzz, text, tier, result, best>>

NextRank == RankCandidatesCall \/ Discard

SpecRank == InitRank /\ [][NextRank]_vars

(* ============================== claims ================================= *)
Returned(o) == pc = "returned" /\ op = o
NormalizeReturned == pc = "returned" /\ op \in {"normalize_ingredient", "best_match"}

\* C1: for every entry e the loader put into the vocabulary, punctuation or
\* repeated inner whitespace included, normalize_ingredient(e.name) returns
\* exactly [(e.name, 100.0)].
C1_ExactMatchEveryEntry ==
    (Returned("normalize_ingredient") /\ input_text \in Range(standard_ingredients))
        => result = << <<input_text, 5000>> >>

\* C3: when the canonical text is empty and the vocabulary is not,
\* normalize_ingredient returns [] and best_match returns None.
C3_EmptyTextNoResult ==
    (NormalizeReturned /\ text = <<>> /\ standard_ingredients # <<>>)
        => (result = <<>> /\ best = <<>>)

\* C7: a readable source without a usable row makes the construction fail;
\* no constructed engine has an empty vocabulary.
C7_EmptyVocabularyRejected ==
    /\ (readable /\ \A i \in DOMAIN csv_rows : ~UsableRow(csv_rows[i])) => status # "ready"
    /\ status = "ready" => standard_ingredients # <<>>

\* C8: a source with two rows of the same name (after strip and lower) is
\* rejected; in a constructed engine every name occurs once in the vocabulary
\* list and keeps the category of its row.
C8_DuplicateNamesRejected ==
    LET usable == SelectSeq(csv_rows, UsableRow)
        duplicated == \E i, j \in DOMAIN usable : i < j /\ RowName(usable[i]) = RowName(usable[j])
    IN /\ duplicated => status # "ready"
       /\ status = "ready" =>
            /\ \A i, j \in DOMAIN standard_ingredients :
                  i # j => standard_ingredients[i] # standard_ingredients[j]
            /\ \A i \in DOMAIN usable :
                  ingredient_to_category[RowName(usable[i])] = RowCategory(usable[i])

\* C10: _normalize_text is idempotent and its output has no leading or
\* trailing space, also for inputs that begin or end with punctuation.
C10_NormalizeTextIdempotentTrimmed ==
    Returned("_normalize_text") =>
        /\ NormalizeText(text) = text
        /\ text # <<>> => (~IsSpace(text[1]) /\ ~IsSpace(text[Len(text)]))

\* the ranked head candidates of tier 2 for the call that returned
HeadRankedOfCall ==
    LET tokens == Tokens(text)
    IN IF tokens = <<>> THEN <<>>
       ELSE RankCandidates(HeadScores(HeadTokenCandidates(PrimaryToken(tokens)), fuzz))

\* the p-th smallest element of a set of positions
NthOf(P, n) == CHOOSE p \in P : Cardinality({q \in P : q < p}) = n - 1

\* C2 as claimed: the adjusted cutoff is applied to the whole ranked list of
\* head candidates and the first top_k of the passing entries are returned
\* from tier 2, whenever at least one head candidate passes.
C2_FilterThenTopK ==
    (NormalizeReturned /\ tier # 1) =>
        LET hr == HeadRankedOfCall
            P == {p \in DOMAIN hr : PassesHeadCutoff(hr[p], score_cutoff)}
            n == Min(top_k, Cardinality(P))
        IN P # {} =>
              /\ tier = 2
              /\ Len(result) = n
              /\ \A i \in 1..n : result[i] = hr[NthOf(P, i)]

\* C2 amended: the adjusted cutoff is applied to the first top_k entries of
\* the ranked list of head candidates; when one of those passes, tier 2
\* returns exactly the passing ones among them, in ranked order; when none of
\* them passes, the call goes on to tier 3.
C2_TopKThenFilter ==
    (NormalizeReturned /\ tier # 1) =>
        LET hr == HeadRankedOfCall
            P == {p \in 1..Min(top_k, Len(hr)) : PassesHeadCutoff(hr[p], score_cutoff)}
        IN /\ P # {} =>
              /\ tier = 2
              /\ ranked = hr
              /\ Len(result) = Cardinality(P)
              /\ \A i \in DOMAIN result : result[i] = hr[NthOf(P, i)]
           /\ P = {} => tier = 3

\* tier 2 returned, and an entry among the first top_k was dropped by the cutoff
C2_Witness ==
    /\ NormalizeReturned /\ tier = 2
    /\ Len(result) >= 1
    /\ Len(result) < Min(top_k, Len(ranked))

\* C4: in tier 3, a non-empty ranked list gives a non-empty result; when no
\* ranked entry reaches the cutoff the result is the first
\* min(top_k, |ranked|) ranked entries; [] is returned only for an empty
\* ranked list.
C4_FallbackNonEmpty ==
    (NormalizeReturned /\ tier = 3) =>
        /\ ranked # <<>> => result # <<>>
        /\ (ranked # <<>> /\ \A p \in DOMAIN ranked :
                ranked[p][2] - CategoryScore(ranked[p][1]) * 100 < score_cutoff * 50)
             => result = SubSeq(ranked, 1, Min(top_k, Len(ranked)))
        /\ result = <<>> => ranked = <<>>

\* tier 3 returned for a non-empty text although no ranked entry reached the cutoff
C4_Witness ==
    /\ NormalizeReturned /\ tier = 3
    /\ standard_ingredients # <<>> /\ input_text # <<>> /\ text # <<>>
    /\ ranked # <<>> /\ result # <<>>
    /\ \A p \in DOMAIN ranked : ~PassesCutoff(ranked[p], score_cutoff)

\* the bijections from 1..n onto 1..n
Bijections(n) == {f \in [1..n -> 1..n] : \A i, j \in 1..n : i # j => f[i] # f[j]}

\* C5: the ranked list is in non-increasing order of combined score and
\* entries of equal combined score keep the order they had in the candidate
\* list; the list normalize_ingredient returns from tier 2 or 3 keeps the
\* order of the ranked list.
C5_StableDescending ==
    (NormalizeReturned /\ tier \in {2, 3}) =>
        /\ Len(ranked) = Len(cands)
        /\ \A p, q \in DOMAIN ranked : p < q => ranked[p][2] >= ranked[q][2]
        /\ \E f \in Bijections(Len(cands)) :
              /\ \A p \in DOMAIN ranked : ranked[p][1] = cands[f[p]][1]
              /\ \A p, q \in DOMAIN ranked :
                    (p < q /\ ranked[p][2] = ranked[q][2]) => f[p] < f[q]
        /\ \E g \in [DOMAIN result -> DOMAIN ranked] :
              /\ \A i \in DOMAIN result : result[i] = ranked[g[i]]
              /\ \A i, j \in DOMAIN result : i < j => g[i] < g[j]

\* a returned list holding two different entries of equal combined score
C5_Witness ==
    /\ NormalizeReturned /\ tier \in {2, 3}
    /\ \E i \in DOMAIN result : \E j \in DOMAIN result :
          i < j /\ result[i][2] = result[j][2] /\ result[i][1] # result[j][1]

\* C6 as claimed: of two candidates with the same raw score, one with only
\* modifier tokens and one with a non-modifier token, the first is ranked
\* strictly behind the second, whatever their categories.
C6_ModifierOnlyRanksLower ==
    Returned("_rank_candidates") =>
        \A i, j \in DOMAIN cands :
            (cands[i][2] = cands[j][2] /\ ModifierOnly(cands[i][1])
                /\ Range(Tokens(cands[j][1])) \ modifier_tokens # {})
            => \A p, q \in DOMAIN ranked :
                  ( /\ ranked[p][1] = cands[i][1]
                    /\ ranked[q][1] = cands[j][1]
                    /\ ranked[p][2] = Combined(cands[i][1], cands[i][2])
                    /\ ranked[q][2] = Combined(cands[j][1], cands[j][2]) )
                  => (p > q /\ ranked[p][2] < ranked[q][2])

\* C6 amended: the same, provided the category priority of the modifier-only
\* entry is not higher than that of the other entry.
C6_ModifierOnlyRanksLowerSamePriority ==
    Returned("_rank_candidates") =>
        \A i, j \in DOMAIN cands :
            (cands[i][2] = cands[j][2] /\ ModifierOnly(cands[i][1])
                /\ Range(Tokens(cands[j][1])) \ modifier_tokens # {}
                /\ CategoryScore(cands[i][1]) <= CategoryScore(cands[j][1]))
            => \A p, q \in DOMAIN ranked :
                  ( /\ ranked[p][1] = cands[i][1]
                    /\ ranked[q][1] = cands[j][1]
                    /\ ranked[p][2] = Combined(cands[i][1], cands[i][2])
                    /\ ranked[q][2] = Combined(cands[j][1], cands[j][2]) )
                  => (p > q /\ ranked[p][2] < ranked[q][2])

\* a modifier-only candidate given before a candidate of the same raw score
\* and category priority that has a non-modifier token, and ranked behind it
C6_Witness ==
    /\ Returned("_rank_candidates")
    /\ \E i, j \in DOMAIN cands :
          /\ i < j
          /\ cands[i][2] = cands[j][2]
          /\ ModifierOnly(cands[i][1])
          /\ Range(Tokens(cands[j][1])) \ modifier_tokens # {}
          /\ CategoryScore(cands[i][1]) = CategoryScore(cands[j][1])
          /\ \E p, q \in DOMAIN ranked :
                p > q /\ ranked[p][1] = cands[i][1] /\ ranked[q][1] = cands[j][1]

\* C9: a call of normalize_ingredient or best_match leaves the vocabulary
\* list and the category table as the constructor built them.
C9_CallsLeaveTablesUnchanged ==
    [][status = "ready" =>
         /\ standard_ingredients' = standard_ingredients
         /\ ingredient_to_category' = ingredient_to_category]_vars

\* a call that went through the extraction over a vocabulary whose order
\* differs from the order of the scores
C9_Witness ==
    /\ NormalizeReturned /\ tier = 3
    /\ Len(standard_ingredients) >= 2
    /\ fuzz[standard_ingredients[1]] < fuzz[standard_ingredients[2]]

====
